---- MODULE Spec2Model ----
(***************************************************************************)
(* State-machine model of the music analysis backend:                      *)
(*   - musicai_ml.demucs_service : process-wide model cache and the steps  *)
(*     of separate_stems, run by the HTTP pipeline (caller 0) and by       *)
(*     threads that call the library function directly (callers 1..N);    *)
(*   - musicai_ml.analyze_audio  : the five-stage orchestrator;            *)
(*   - app.api.v1.audio          : the upload handler and its sessions;    *)
(*   - waveform / key / chord services : pure functions, applied to        *)
(*     inputs that are built up step by step.                              *)
(* Real-valued scores are kept exact (integers and integer fractions);     *)
(* floating-point rounding is not modelled.                                *)
(***************************************************************************)
EXTENDS Integers, Sequences, FiniteSets, TLC

\* ------------------------------------------------------------------ bounds
\* Threads that call separate_stems directly, one call each.
NumRequests == 2
\* Upload requests served (one session id each).
MaxSessions == 2

VARIABLES
    cache,       \* _MODEL_CACHE: model name -> instance id (0: key absent)
    instDevice,  \* instance id -> device of its last model.to ("unbound": none yet)
    nextInst,    \* id the next get_model() result gets
    loadCalls,   \* model name -> number of get_model() invocations
    loadFails,   \* model name -> number of get_model() invocations that raised
    calls,       \* caller -> frame of its separate_stems call
    dirs,        \* directories that exist
    files,       \* path of each file that exists -> kind of its content
    an,          \* frame of the analyze_audio call of the HTTP pipeline
    up,          \* frame of the upload_and_process request being served
    nextSession, \* number of the next session id new_session_id() returns
    wav,         \* generate_waveform_preview: decoded buffer, argument, result
    key,         \* _estimate_key: chroma energy per pitch class, result
    ch,          \* detect_chords: chroma matrix, segments, merged result
    cn,          \* the two confidences computed from one chroma frame
    rq,          \* the last get_stem or delete_session request and its answer
    ld           \* frame of a load_audio call

cacheVars == <<cache, instDevice, nextInst, loadCalls, loadFails>>
fsVars == <<dirs, files>>
httpVars == <<an, up, nextSession>>
\* What the steps of separate_stems never touch.
moreVars == <<cn, rq, ld>>
pureVars == <<wav, key, ch, moreVars>>
restVars == <<an, up, nextSession, wav, key, ch, moreVars>>

\* ------------------------------------------------------------ file system
\* A directory is a session directory under BASE_TEMP_DIR or a directory of
\* a direct caller; a file name is <<base, suffix>>.
SessionIds == 1..MaxSessions
SessionDir(sid) == <<"session", sid>>
InDir == <<"ext", 0>>
OutDir == <<"ext", 1>>
Dirs == {SessionDir(s) : s \in SessionIds} \cup {InDir, OutDir}

StemNames == <<"drums", "bass", "other", "vocals">>
UploadNames == {<<"song", ".mp3">>, <<"vocals", ".wav">>, <<"Take", ".WAV">>,
                <<"notes", ".txt">>, <<"", "">>}
StemFile(name) == <<name, ".wav">>
FileNames == UploadNames \cup {StemFile(StemNames[i]) : i \in 1..Len(StemNames)}
                         \cup {<<"mix", ".wav">>}
Paths == Dirs \X FileNames
MixPath == <<InDir, <<"mix", ".wav">>>>

\* What is at path p, and the files after a write of content to p.
Content(p) == IF p \in DOMAIN files THEN files[p] ELSE "absent"
Put(fs, p, content) ==
    [q \in DOMAIN fs \cup {p} |-> IF q = p THEN content ELSE fs[q]]

\* ------------------------------------------------------------ model cache
ModelNames == {"htdemucs", "mdx_extra"}
Devices == {"cpu", "cuda"}
HttpCaller == 0
DirectCallers == 1..NumRequests
Callers == {HttpCaller} \cup DirectCallers

IdleCall == [pc |-> "idle", model_name |-> "htdemucs", device |-> "cpu",
             audio_path |-> MixPath, output_dir |-> OutDir,
             loaded |-> 0, model |-> 0, i |-> 1, result |-> "none"]

\* separate_stems entry: output_dir.mkdir(parents=True, exist_ok=True).
EnterSeparate(c, audio_path, output_dir, model_name, device) ==
    /\ dirs' = dirs \cup {output_dir}
    /\ calls' = [calls EXCEPT ![c] =
                   [pc |-> "check", model_name |-> model_name, device |-> device,
                    audio_path |-> audio_path, output_dir |-> output_dir,
                    loaded |-> 0, model |-> 0, i |-> 1, result |-> "none"]]
    /\ UNCHANGED <<cacheVars, files>>

\* `if model_name not in _MODEL_CACHE`
CacheCheck(c) ==
    /\ calls[c].pc = "check"
    /\ calls' = [calls EXCEPT ![c].pc =
                   IF cache[calls[c].model_name] = 0 THEN "load" ELSE "return"]
    /\ UNCHANGED <<cacheVars, fsVars, restVars>>

\* get_model(model_name) returns a new instance.
GetModel(c) ==
    /\ calls[c].pc = "load"
    /\ calls' = [calls EXCEPT ![c].pc = "store", ![c].loaded = nextInst]
    /\ nextInst' = nextInst + 1
    /\ loadCalls' = [loadCalls EXCEPT ![calls[c].model_name] = @ + 1]
    /\ UNCHANGED <<cache, instDevice, loadFails, fsVars, restVars>>

\* get_model(model_name) raises (weights missing, corrupt or unreachable).
GetModelFail(c) ==
    /\ calls[c].pc = "load"
    /\ calls' = [calls EXCEPT ![c].pc = "done", ![c].result = "ModelLoadError"]
    /\ loadCalls' = [loadCalls EXCEPT ![calls[c].model_name] = @ + 1]
    /\ loadFails' = [loadFails EXCEPT ![calls[c].model_name] = @ + 1]
    /\ UNCHANGED <<cache, instDevice, nextInst, fsVars, restVars>>

\* A store that is lost: the entry is never written.
CacheStoreSkipped(c) ==
    /\ calls[c].pc = "store"
    /\ calls' = [calls EXCEPT ![c].pc = "return", ![c].model = calls[c].loaded]
    /\ UNCHANGED <<cacheVars, fsVars, restVars>>

\* `_MODEL_CACHE[model_name] = <the loaded instance>`
CacheStore(c) ==
    /\ calls[c].pc = "store"
    /\ cache' = [cache EXCEPT ![calls[c].model_name] = calls[c].loaded]
    /\ calls' = [calls EXCEPT ![c].pc = "return"]
    /\ UNCHANGED <<instDevice, nextInst, loadCalls, loadFails, fsVars, restVars>>

\* `return _MODEL_CACHE[model_name]`, bound to `model` in separate_stems.
CacheReturn(c) ==
    /\ calls[c].pc = "return"
    /\ calls' = [calls EXCEPT ![c].pc = "to", ![c].model = cache[calls[c].model_name]]
    /\ UNCHANGED <<cacheVars, fsVars, restVars>>

\* The device an instance is on after model.to(device): moved in place.
DeviceAfterTo(current, device) == device

\* `model.to(device); model.eval()`
ModelTo(c) ==
    /\ calls[c].pc = "to"
    /\ instDevice' = [instDevice EXCEPT ![calls[c].model] =
                        DeviceAfterTo(@, calls[c].device)]
    /\ calls' = [calls EXCEPT ![c].pc = "audio"]
    /\ UNCHANGED <<cache, nextInst, loadCalls, loadFails, fsVars, restVars>>

\* load_audio(audio_path, target_sr=model.samplerate, mono=False) succeeds.
LoadAudio(c) ==
    /\ calls[c].pc = "audio"
    /\ Content(calls[c].audio_path) \notin {"absent", "partial"}
    /\ calls' = [calls EXCEPT ![c].pc = "apply"]
    /\ UNCHANGED <<cacheVars, fsVars, restVars>>

\* load_audio raises: neither decode path could read the file.
LoadAudioFail(c) ==
    /\ calls[c].pc = "audio"
    /\ calls' = [calls EXCEPT ![c].pc = "done", ![c].result = "DecodeError"]
    /\ UNCHANGED <<cacheVars, fsVars, restVars>>

\* apply_model(model, audio_tensor, device=device) returns the stems.
ApplyModel(c) ==
    /\ calls[c].pc = "apply"
    /\ calls' = [calls EXCEPT ![c].pc = "write"]
    /\ UNCHANGED <<cacheVars, fsVars, restVars>>

\* apply_model raises (device or runtime failure in the forward pass).
ApplyModelFail(c) ==
    /\ calls[c].pc = "apply"
    /\ calls' = [calls EXCEPT ![c].pc = "done", ![c].result = "InferenceError"]
    /\ UNCHANGED <<cacheVars, fsVars, restVars>>

\* out_path = output_dir / f"{name}.wav"
OutPath(output_dir, name) == <<output_dir, StemFile(name)>>

\* One iteration of the write loop: sf.write(out_path, ...) creates or
\* replaces the file at out_path.
WriteStem(c) ==
    /\ calls[c].pc = "write"
    /\ calls[c].i <= Len(StemNames)
    /\ files' = Put(files, OutPath(calls[c].output_dir, StemNames[calls[c].i]), "stem")
    /\ calls' = [calls EXCEPT ![c].i = @ + 1]
    /\ UNCHANGED <<cacheVars, dirs, restVars>>

\* sf.write raises: the file was not opened, or was opened (truncated) and
\* not completely written.
WriteStemFail(c) ==
    /\ calls[c].pc = "write"
    /\ calls[c].i <= Len(StemNames)
    /\ \E opened \in BOOLEAN :
         files' = IF opened
                  THEN Put(files, OutPath(calls[c].output_dir, StemNames[calls[c].i]), "partial")
                  ELSE files
    /\ calls' = [calls EXCEPT ![c].pc = "done", ![c].result = "IOError"]
    /\ UNCHANGED <<cacheVars, dirs, restVars>>

\* `return stem_paths`
SeparateReturn(c) ==
    /\ calls[c].pc = "write"
    /\ calls[c].i > Len(StemNames)
    /\ calls' = [calls EXCEPT ![c].pc = "done", ![c].result = "ok"]
    /\ UNCHANGED <<cacheVars, fsVars, restVars>>

\* Every step of separate_stems after its entry.
SeparateStep(c) ==
    \/ CacheCheck(c)
    \/ GetModel(c)
    \/ GetModelFail(c)
    \/ CacheStore(c)
    \/ CacheReturn(c)
    \/ ModelTo(c)
    \/ LoadAudio(c)
    \/ LoadAudioFail(c)
    \/ ApplyModel(c)
    \/ ApplyModelFail(c)
    \/ WriteStem(c)
    \/ WriteStemFail(c)
    \/ SeparateReturn(c)

\* A thread calls separate_stems(audio_path, output_dir, model_name, device).
DirectCall(c) ==
    /\ calls[c].pc = "idle"
    /\ \E model_name \in ModelNames, device \in Devices :
         EnterSeparate(c, MixPath, OutDir, model_name, device)
    /\ UNCHANGED restVars

\* The same call, made only when no other call is in progress.
SequentialCall(c) ==
    /\ \A d \in Callers : calls[d].pc \in {"idle", "done"}
    /\ DirectCall(c)

\* ---------------------------------------------------------- analyze_audio
Stages == <<"duration", "waveform", "key_tempo", "chords", "stems">>

IdleAnalysis == [pc |-> "idle", audio_path |-> MixPath, output_dir |-> OutDir,
                 device |-> "cpu", started |-> <<>>, error |-> "none",
                 result |-> "none"]

\* A stage whose exception is swallowed: the next stage runs anyway.
AfterStageSwallowed(ok, next) == next

\* Where control goes after a stage: on, or out of analyze_audio with the
\* stage's exception (no try/except around any stage).
AfterStage(ok, next) == IF ok THEN next ELSE "raised"

\* One of the four read-only stages: it decodes the input and returns its
\* value, or raises.
RunStage(stage, next) ==
    /\ an.pc = stage
    /\ \E ok \in BOOLEAN :
         /\ ok => Content(an.audio_path) \notin {"absent", "partial"}
         /\ an' = [an EXCEPT !.pc = AfterStage(ok, next),
                             !.started = Append(@, stage),
                             !.error = IF ok THEN @ ELSE "DecodeError"]
    /\ UNCHANGED <<cacheVars, calls, fsVars, up, nextSession, pureVars>>

\* duration = get_duration_seconds(audio_path)
DurationStage == RunStage("duration", "waveform")
\* waveform = generate_waveform_preview(audio_path)
WaveformStage == RunStage("waveform", "key_tempo")
\* key_tempo = analyze_key_and_tempo(audio_path)
KeyTempoStage == RunStage("key_tempo", "chords")
\* chords = detect_chords(audio_path)
ChordStage == RunStage("chords", "stems")

\* stems = separate_stems(audio_path, output_dir, device=device)
StemStage ==
    /\ an.pc = "stems"
    /\ an' = [an EXCEPT !.pc = "separating", !.started = Append(@, "stems")]
    /\ EnterSeparate(HttpCaller, an.audio_path, an.output_dir, "htdemucs", an.device)
    /\ UNCHANGED <<up, nextSession, pureVars>>

\* separate_stems returned: the result dict is built and returned.
AnalyzeReturn ==
    /\ an.pc = "separating"
    /\ calls[HttpCaller].pc = "done"
    /\ calls[HttpCaller].result = "ok"
    /\ an' = [an EXCEPT !.pc = "returned", !.result = "AnalysisResult"]
    /\ UNCHANGED <<cacheVars, calls, fsVars, up, nextSession, pureVars>>

\* separate_stems raised: the exception leaves analyze_audio.
AnalyzeRaise ==
    /\ an.pc = "separating"
    /\ calls[HttpCaller].pc = "done"
    /\ calls[HttpCaller].result # "ok"
    /\ an' = [an EXCEPT !.pc = "raised", !.error = calls[HttpCaller].result]
    /\ UNCHANGED <<cacheVars, calls, fsVars, up, nextSession, pureVars>>

\* ------------------------------------------------------ upload_and_process
ALLOWED_EXTENSIONS == {".mp3", ".wav", ".m4a"}
MAX_FILE_SIZE_MB == 100
\* Sizes are counted in units of 1/UnitsPerMB MiB.
UnitsPerMB == 2
\* MAX_FILE_SIZE_MB * 1024 * 1024
SizeLimit == MAX_FILE_SIZE_MB * UnitsPerMB
\* file.read(1024 * 1024)
ChunkSize == UnitsPerMB
UploadSizes == {0, 1, SizeLimit, SizeLimit + 1, SizeLimit + ChunkSize + 1}

Min(a, b) == IF a <= b THEN a ELSE b

\* Path(filename).suffix
Suffix(filename) == filename[2]
\* The suffix compared as it is written
NoLower(suffix) == suffix

\* str.lower() on the suffixes in use
Lower(suffix) ==
    CASE suffix = ".WAV" -> ".wav"
      [] suffix = ".MP3" -> ".mp3"
      [] suffix = ".M4A" -> ".m4a"
      [] OTHER -> suffix

IdleUpload == [pc |-> "idle", filename |-> <<"", "">>, sid |-> 0, device |-> "cpu",
               remaining |-> 0, total |-> 0, exc |-> "none",
               status |-> 0, detail |-> ""]

UploadPath == <<SessionDir(up.sid), up.filename>>

\* The directories with none of them removed
DirsKept(sid) == dirs

\* cleanup_session(session_id): the directory and all it holds are removed,
\* if it exists.
DirsAfterCleanup(sid) == dirs \ {SessionDir(sid)}
FilesAfterCleanup(sid) ==
    IF SessionDir(sid) \in dirs
    THEN [p \in {q \in DOMAIN files : q[1] # SessionDir(sid)} |-> files[p]]
    ELSE files

\* The request arrives: the extension check, then new_session_id(),
\* session_dir() and audio_path.open("wb").
Upload ==
    /\ up.pc = "idle"
    /\ \E filename \in UploadNames, size \in UploadSizes, device \in Devices :
         IF Lower(Suffix(filename)) \notin ALLOWED_EXTENSIONS
         THEN /\ up' = [IdleUpload EXCEPT !.filename = filename, !.status = 400,
                                          !.detail = "Unsupported file format"]
              /\ UNCHANGED <<nextSession, fsVars>>
         ELSE /\ nextSession <= MaxSessions
              /\ up' = [IdleUpload EXCEPT !.pc = "read", !.filename = filename,
                                          !.sid = nextSession, !.device = device,
                                          !.remaining = size]
              /\ nextSession' = nextSession + 1
              /\ dirs' = dirs \cup {SessionDir(nextSession)}
              /\ files' = Put(files, <<SessionDir(nextSession), filename>>, "partial")
    /\ UNCHANGED <<cacheVars, calls, an, pureVars>>

\* One turn of `while chunk := await file.read(1024 * 1024)`; the empty
\* chunk ends the loop and closes the file.
ReadChunk ==
    /\ up.pc = "read"
    /\ LET chunk == Min(ChunkSize, up.remaining)
           total_size == up.total + chunk
       IN  IF chunk = 0
           THEN /\ up' = [up EXCEPT !.pc = "process"]
                /\ files' = Put(files, UploadPath, "upload")
           ELSE IF total_size > SizeLimit
           THEN /\ up' = [up EXCEPT !.pc = "except", !.total = total_size,
                                    !.exc = "HTTPException413"]
                /\ UNCHANGED files
           ELSE /\ up' = [up EXCEPT !.total = total_size, !.remaining = @ - chunk]
                /\ UNCHANGED files
    /\ UNCHANGED <<cacheVars, calls, an, dirs, nextSession, pureVars>>

\* process_audio_file up to its call of analyze_audio.
ProcessAudioFile ==
    /\ up.pc = "process"
    /\ dirs' = dirs \cup {SessionDir(up.sid)}
    /\ IF Content(UploadPath) = "absent"
       THEN /\ up' = [up EXCEPT !.pc = "except", !.exc = "FileNotFoundError"]
            /\ UNCHANGED an
       ELSE /\ up' = [up EXCEPT !.pc = "analyzing"]
            /\ an' = [IdleAnalysis EXCEPT !.pc = "duration", !.audio_path = UploadPath,
                                          !.output_dir = SessionDir(up.sid),
                                          !.device = up.device]
    /\ UNCHANGED <<cacheVars, calls, files, nextSession, pureVars>>

\* The request is answered: its frames are gone; the model keeps the
\* response with the session id, the byte count and the exception it answers.
Responded(status, detail) ==
    [IdleUpload EXCEPT !.sid = up.sid, !.total = up.total, !.exc = up.exc,
                       !.status = status, !.detail = detail]

\* analyze_audio returned: the response model is built and returned.
ProcessReturn ==
    /\ up.pc = "analyzing"
    /\ an.pc = "returned"
    /\ up' = Responded(200, "AnalysisResponse")
    /\ an' = IdleAnalysis
    /\ calls' = [calls EXCEPT ![HttpCaller] = IdleCall]
    /\ UNCHANGED <<cacheVars, fsVars, nextSession, pureVars>>

\* analyze_audio raised: the exception reaches the handler's try block.
ProcessRaise ==
    /\ up.pc = "analyzing"
    /\ an.pc = "raised"
    /\ up' = [up EXCEPT !.pc = "except", !.exc = an.error]
    /\ UNCHANGED <<cacheVars, calls, fsVars, an, nextSession, pureVars>>

\* The except clause that catches exc: `except FileNotFoundError` first, then
\* `except Exception`, which every other exception here is an instance of
\* (HTTPException included).
ExceptStatus(exc) == IF exc = "FileNotFoundError" THEN 404 ELSE 500
ExceptDetail(exc) == IF exc = "FileNotFoundError" THEN "not found" ELSE "Processing failed"

\* The matching except clause: cleanup_session(session_id), then the
\* HTTPException it raises becomes the response.
HandleException ==
    /\ up.pc = "except"
    /\ dirs' = DirsAfterCleanup(up.sid)
    /\ files' = FilesAfterCleanup(up.sid)
    /\ up' = Responded(ExceptStatus(up.exc), ExceptDetail(up.exc))
    /\ an' = IdleAnalysis
    /\ calls' = [calls EXCEPT ![HttpCaller] = IdleCall]
    /\ UNCHANGED <<cacheVars, nextSession, pureVars>>

\* ------------------------------------------------- get_stem, delete_session
\* A client names an id that new_session_id() has returned, or
\* "fake-session-id", an id that it never returns.
FakeSession == 0
KnownSessions == {FakeSession} \cup {sid \in SessionIds : sid < nextSession}

valid_stems == {"vocals", "drums", "bass", "other"}
RequestedStems == {"vocals", "drums", "piano"}

NoRequest == [op |-> "none", sid |-> FakeSession, stem_name |-> "", status |-> 0]

\* cleanup_session raising for a directory that is not there
DeleteStatusStrict(existed) == IF existed THEN 200 ELSE 500

\* delete_session's answer: cleanup_session tests d.exists() and returns
\* without raising either way, so the answer is {"status": "ok"}.
DeleteStatus(existed) == 200

\* DELETE /session/{session_id}, served while no upload is being served.
DeleteSession ==
    /\ up.pc = "idle"
    /\ \E sid \in KnownSessions :
         /\ rq' = [op |-> "delete", sid |-> sid, stem_name |-> "",
                   status |-> DeleteStatus(SessionDir(sid) \in dirs)]
         /\ dirs' = DirsAfterCleanup(sid)
         /\ files' = FilesAfterCleanup(sid)
    /\ UNCHANGED <<cacheVars, calls, httpVars, wav, key, ch, cn, ld>>

\* GET /stem/{session_id}/{stem_name}, served while no upload is being
\* served: the stem name check, then session_dir(session_id), which makes the
\* directory, then stem_path.exists().
GetStem ==
    /\ up.pc = "idle"
    /\ \E sid \in KnownSessions, stem_name \in RequestedStems :
         IF stem_name \notin valid_stems
         THEN /\ rq' = [op |-> "stem", sid |-> sid, stem_name |-> stem_name, status |-> 400]
              /\ UNCHANGED dirs
         ELSE /\ dirs' = dirs \cup {SessionDir(sid)}
              /\ rq' = [op |-> "stem", sid |-> sid, stem_name |-> stem_name,
                        status |-> IF Content(<<SessionDir(sid), StemFile(stem_name)>>) = "absent"
                                   THEN 404 ELSE 200]
    /\ UNCHANGED <<cacheVars, calls, files, httpVars, wav, key, ch, cn, ld>>

\* ---------------------------------------------------------------- load_audio
\* Sample rates of files and of callers' target_sr; ChannelCounts are the
\* channel counts a decoder reports.
SampleRates == {22050, 44100, 48000}
ChannelCounts == {1, 2}

IdleLoad == [pc |-> "idle", target_sr |-> 44100, mono |-> FALSE,
             primary |-> "untried", secondary |-> "untried",
             decoded_channels |-> 0, decoded_sr |-> 0,
             channels |-> 0, sr |-> 0, error |-> "none"]

\* The channels left with no mixdown
UnmixedChannels(mono, channels) == channels

\* `if mono and audio.shape[0] > 1: audio = np.mean(audio, axis=0, keepdims=True)`
MixedChannels(mono, channels) == IF mono /\ channels > 1 THEN 1 ELSE channels

\* load_audio(path, target_sr, mono) is called.
LoadCall ==
    /\ ld.pc = "idle"
    /\ \E target_sr \in SampleRates, mono \in BOOLEAN :
         ld' = [IdleLoad EXCEPT !.pc = "primary", !.target_sr = target_sr, !.mono = mono]
    /\ UNCHANGED <<cacheVars, calls, fsVars, httpVars, wav, key, ch, cn, rq>>

\* `audio, sr = sf.read(str(path), always_2d=True)`: it returns the file's
\* channels and rate, or raises and the except clause is entered.
PrimaryDecode ==
    /\ ld.pc = "primary"
    /\ \/ \E n \in ChannelCounts, sr \in SampleRates :
            ld' = [ld EXCEPT !.pc = "mix", !.primary = "ok",
                             !.decoded_channels = n, !.decoded_sr = sr,
                             !.channels = n, !.sr = sr]
       \/ ld' = [ld EXCEPT !.pc = "secondary", !.primary = "failed"]
    /\ UNCHANGED <<cacheVars, calls, fsVars, httpVars, wav, key, ch, cn, rq>>

\* `y, sr = librosa.load(str(path), sr=None, mono=False)` in the except
\* clause: a 1-d result gets its channel axis; an exception leaves load_audio.
SecondaryDecode ==
    /\ ld.pc = "secondary"
    /\ \/ \E n \in ChannelCounts, sr \in SampleRates :
            ld' = [ld EXCEPT !.pc = "mix", !.secondary = "ok",
                             !.decoded_channels = n, !.decoded_sr = sr,
                             !.channels = n, !.sr = sr]
       \/ ld' = [ld EXCEPT !.pc = "raised", !.secondary = "failed",
                           !.error = "DecodeError"]
    /\ UNCHANGED <<cacheVars, calls, fsVars, httpVars, wav, key, ch, cn, rq>>

\* The optional mono mix.
MonoMix ==
    /\ ld.pc = "mix"
    /\ ld' = [ld EXCEPT !.pc = "resample",
                        !.channels = MixedChannels(ld.mono, ld.channels)]
    /\ UNCHANGED <<cacheVars, calls, fsVars, httpVars, wav, key, ch, cn, rq>>

\* `if sr != target_sr:` every channel is resampled and sr becomes
\* target_sr, or librosa.resample raises; then `return audio, sr`.
ResampleReturn ==
    /\ ld.pc = "resample"
    /\ IF ld.sr # ld.target_sr
       THEN \/ ld' = [ld EXCEPT !.pc = "returned", !.sr = ld.target_sr]
            \/ ld' = [ld EXCEPT !.pc = "raised", !.error = "ResampleError"]
       ELSE ld' = [ld EXCEPT !.pc = "returned"]
    /\ UNCHANGED <<cacheVars, calls, fsVars, httpVars, wav, key, ch, cn, rq>>

\* ------------------------------------------------------- waveform preview
\* Sample values are integers in -MaxAmp..MaxAmp; a buffer holds at most
\* MaxCells samples over all channels; max_points ranges over 1..MaxPoints.
MaxAmp == 2
MaxCells == 4
MaxPoints == 3
Amps == (0 - MaxAmp)..MaxAmp

Abs(x) == IF x < 0 THEN 0 - x ELSE x

RECURSIVE SumSeq(_)
SumSeq(s) == IF s = <<>> THEN 0 ELSE Head(s) + SumSeq(Tail(s))

\* A buffer is channel-first: a sequence of channels of equal length.
NumChannels(audio) == Len(audio)
NumSamples(audio) == Len(audio[1])

\* np.max(np.abs(audio[0])): the maximum of the first channel alone
FirstChannelMaxAbs(audio) ==
    CHOOSE m \in 0..MaxAmp :
        /\ \E i \in 1..NumSamples(audio) : Abs(audio[1][i]) = m
        /\ \A i \in 1..NumSamples(audio) : Abs(audio[1][i]) <= m

\* np.max(np.abs(audio)) of a non-empty buffer
MaxAbs(audio) ==
    CHOOSE m \in 0..MaxAmp :
        /\ \E c \in 1..NumChannels(audio), i \in 1..NumSamples(audio) :
             Abs(audio[c][i]) = m
        /\ \A c \in 1..NumChannels(audio), i \in 1..NumSamples(audio) :
             Abs(audio[c][i]) <= m

\* waveform_preview(audio, max_points) on a buffer of fractions num/den
\* that share one denominator: a chunk's mean is (sum of num)/(den * chunk_size).
waveform_preview(audio, max_points) ==
    LET channels == NumChannels(audio)
        samples == NumSamples(audio)
    IN  IF samples <= max_points
        THEN audio
        ELSE LET chunk == samples \div max_points
                 chunk_size == IF chunk = 0 THEN 1 ELSE chunk
                 actual_points == samples \div chunk_size
             IN  [c \in 1..channels |->
                   [j \in 1..actual_points |->
                     [num |-> SumSeq([k \in 1..chunk_size |->
                                        audio[c][(j - 1) * chunk_size + k].num]),
                      den |-> audio[c][1].den * chunk_size]]]

NoPreview == [error |-> "none", channels |-> 0, points |-> 0, waveform |-> <<>>]

\* generate_waveform_preview after load_audio returned `audio`. np.max of a
\* buffer with no samples raises ValueError. (sample_rate, the constant
\* target_sr, is left out of the result.)
generate_waveform_preview(audio, max_points) ==
    IF NumSamples(audio) = 0
    THEN [NoPreview EXCEPT !.error = "ValueError"]
    ELSE LET m == MaxAbs(audio)
             max_abs == IF m = 0 THEN 1 ELSE m
             normalized == [c \in 1..NumChannels(audio) |->
                             [i \in 1..NumSamples(audio) |->
                               [num |-> audio[c][i], den |-> max_abs]]]
             preview == waveform_preview(normalized, max_points)
         IN  [error |-> "none", channels |-> Len(preview),
              points |-> Len(preview[1]), waveform |-> preview]

\* load_audio decodes one more sample per channel (the first sample fixes
\* the number of channels).
DecodeSample ==
    /\ wav.pc = "decode"
    /\ \E n \in ChannelCounts :
         /\ NumSamples(wav.audio) > 0 => n = NumChannels(wav.audio)
         /\ n * (NumSamples(wav.audio) + 1) <= MaxCells
         /\ \E frame \in [1..n -> Amps] :
              wav' = [wav EXCEPT !.audio =
                        [c \in 1..n |->
                           Append(IF NumSamples(wav.audio) = 0 THEN <<>> ELSE wav.audio[c],
                                  frame[c])]]
    /\ UNCHANGED <<cacheVars, calls, fsVars, httpVars, key, ch, moreVars>>

\* generate_waveform_preview(audio_path, max_points=max_points) on what
\* was decoded.
GeneratePreview ==
    /\ wav.pc = "decode"
    /\ \E max_points \in 1..MaxPoints :
         wav' = [wav EXCEPT !.pc = "done", !.max_points = max_points,
                            !.result = generate_waveform_preview(wav.audio, max_points)]
    /\ UNCHANGED <<cacheVars, calls, fsVars, httpVars, key, ch, moreVars>>

\* --------------------------------------------------------- key estimation
\* Chroma energies are whole units; a chroma vector holds at most
\* MaxKeyEnergy units in all.
MaxKeyEnergy == 3

_KEY_NAMES == <<"C", "C#", "D", "D#", "E", "F", "F#", "G", "G#", "A", "A#", "B">>
\* The Krumhansl profiles, in hundredths.
_KRUMHANSL_MAJOR == <<635, 223, 348, 233, 438, 409, 252, 519, 239, 366, 229, 288>>
_KRUMHANSL_MINOR == <<633, 268, 352, 538, 260, 353, 254, 475, 398, 269, 334, 317>>

ZeroChroma == [k \in 1..12 |-> 0]

\* np.roll(v, i): element k of the result is element k - i of v (mod 12).
Roll(v, i) == [k \in 1..12 |-> v[((k - 1 - i) % 12) + 1]]
\* np.dot(a, b)
Dot(a, b) ==
    a[1] * b[1] + a[2] * b[2] + a[3] * b[3] + a[4] * b[4] + a[5] * b[5] + a[6] * b[6]
    + a[7] * b[7] + a[8] * b[8] + a[9] * b[9] + a[10] * b[10] + a[11] * b[11]
    + a[12] * b[12]

\* Total energy of a chroma vector.
Energy(chroma) == Dot(chroma, [k \in 1..12 |-> 1])

\* x * y as three base-1000 digits <<top, middle, low>>, for x < 2^31 and
\* y < 2^21 (the product does not fit TLC's integers).
WideProduct(x, y) ==
    LET x1 == x \div 1000
        x0 == x % 1000
        y1 == y \div 1000
        y0 == y % 1000
        low == x0 * y0
        mid == x1 * y0 + x0 * y1 + (low \div 1000)
    IN  <<x1 * y1 + (mid \div 1000), mid % 1000, low % 1000>>

WideLess(a, b) ==
    \/ a[1] < b[1]
    \/ a[1] = b[1] /\ a[2] < b[2]
    \/ a[1] = b[1] /\ a[2] = b[2] /\ a[3] < b[3]

\* The list `scores` of _estimate_key, in the order it is appended to. The
\* score of (mode, i) is np.dot(chroma_norm, np.roll(profile / |profile|, i))
\*   = dot / (sqrt(normsq) * (|chroma_mean| + 1e-9)),
\* with dot and normsq as kept here; the last factor is common to all 24.
KeyScores(chroma) ==
    [k \in 1..24 |->
       LET i == (k - 1) \div 2
           profile == IF k % 2 = 1 THEN _KRUMHANSL_MAJOR ELSE _KRUMHANSL_MINOR
       IN  [mode |-> IF k % 2 = 1 THEN "major" ELSE "minor",
            tonic |-> i,
            dot |-> Dot(chroma, Roll(profile, i)),
            normsq |-> Dot(profile, profile)]]

\* a's score > b's score: dot_a / sqrt(normsq_a) > dot_b / sqrt(normsq_b),
\* compared exactly as dot_a^2 * normsq_b > dot_b^2 * normsq_a (dots >= 0).
ScoreGreater(a, b) ==
    WideLess(WideProduct(b.dot * b.dot, a.normsq), WideProduct(a.dot * a.dot, b.normsq))

\* max(scores, key=...) that keeps the last of equal maxima.
RECURSIVE PyMaxLast(_, _)
PyMaxLast(scores, k) ==
    IF k = 1 THEN 1
    ELSE CHOOSE kept \in {IF ScoreGreater(scores[best], scores[k]) THEN best ELSE k :
                           best \in {PyMaxLast(scores, k - 1)}} : TRUE

\* max(scores[1..k], key=lambda x: x[2]): the index kept after item k; an
\* item replaces the one kept only if its score is greater.
RECURSIVE PyMax(_, _)
PyMax(scores, k) ==
    IF k = 1 THEN 1
    ELSE CHOOSE kept \in {IF ScoreGreater(scores[k], scores[best]) THEN k ELSE best :
                           best \in {PyMax(scores, k - 1)}} : TRUE

\* f"{_KEY_NAMES[tonic]} {mode}", kept as the pair of its two parts
KeyName(tonic, mode) == <<_KEY_NAMES[tonic + 1], mode>>

\* float(max(0.0, min(1.0, (best + 1) / 2))) for the score
\*   best = dot / (sqrt(normsq) * sqrt(normsq_chroma)), or 0 for silence:
\* "one" and "zero" when min or max replaces the value, and otherwise the
\* parts of best, the confidence being (best + 1) / 2.
KeyConfidence(best, normsq_chroma) ==
    LET beyond == best.dot * best.dot > best.normsq * normsq_chroma
    IN  IF normsq_chroma > 0 /\ best.dot > 0 /\ beyond THEN [clamp |-> "one"]
        ELSE IF normsq_chroma > 0 /\ best.dot < 0 /\ beyond THEN [clamp |-> "zero"]
        ELSE [clamp |-> "none", dot |-> IF normsq_chroma > 0 THEN best.dot ELSE 0,
              normsq |-> best.normsq, normsq_chroma |-> normsq_chroma]

NoKey ==
    [key |-> <<"", "">>, best |-> [mode |-> "", tonic |-> 0, dot |-> 0, normsq |-> 0],
     confidence |-> [clamp |-> ""]]

\* _estimate_key(chroma), with `chroma` standing for chroma.mean(axis=1) up
\* to a positive factor; `best` is the winning score, from which the
\* confidence is computed.
_estimate_key(chroma) ==
    LET scores == KeyScores(chroma)
        best == scores[PyMax(scores, Len(scores))]
    IN  [key |-> KeyName(best.tonic, best.mode), best |-> best,
         confidence |-> KeyConfidence(best, Dot(chroma, chroma))]

\* chroma_cqt finds one more unit of energy in a pitch class.
KeyChromaEnergy ==
    /\ key.pc = "chroma"
    /\ Energy(key.chroma) < MaxKeyEnergy
    /\ \E p \in 1..12 : key' = [key EXCEPT !.chroma[p] = @ + 1]
    /\ UNCHANGED <<cacheVars, calls, fsVars, httpVars, wav, ch, moreVars>>

\* key_info = _estimate_key(chroma)
EstimateKey ==
    /\ key.pc = "chroma"
    /\ key' = [key EXCEPT !.pc = "done", !.result = _estimate_key(key.chroma)]
    /\ UNCHANGED <<cacheVars, calls, fsVars, httpVars, wav, ch, moreVars>>

-----------------------------------------------------------------------------
\* detect_chords (chords_service.py)

MaxFrames == 3
MaxChordEnergy == 2

\* librosa's chroma values lie in [0, 1]; a frame holds them in units of
\* 1 / ChromaScale.
ChromaScale == MaxChordEnergy

hop_length == 2048
chord_names == <<"C", "C#", "D", "D#", "E", "F", "F#", "G", "G#", "A", "A#", "B">>
major_template == <<1, 0, 0, 0, 1, 0, 0, 1, 0, 0, 0, 0>>
minor_template == <<1, 0, 0, 1, 0, 0, 0, 1, 0, 0, 0, 0>>

RECURSIVE ChromaEnergy(_)
ChromaEnergy(chroma) ==
    IF chroma = <<>> THEN 0 ELSE Energy(Head(chroma)) + ChromaEnergy(Tail(chroma))

\* `if score > best_score:` with the score accepted only past the one kept
BetterOrEqual(score, best_score) == score >= best_score

\* `if maj_score > best_score:`, `if min_score > best_score:`
Better(score, best_score) == score > best_score

\* best_chord = "N"; best_score = 0.0. A label is the pair of a root name
\* and "" or "m", standing for their concatenation.
NoChord == [best_chord |-> <<"N", "">>, best_score |-> 0]

\* One turn of `for root in range(12)`, from the pair kept before it.
RootTurn(frame_chroma, root, kept) ==
    LET maj_score == Dot(frame_chroma, Roll(major_template, root))
        min_score == Dot(frame_chroma, Roll(minor_template, root))
        after_maj == IF Better(maj_score, kept.best_score)
                     THEN [best_chord |-> <<chord_names[root + 1], "">>,
                           best_score |-> maj_score]
                     ELSE kept
    IN  IF Better(min_score, after_maj.best_score)
        THEN [best_chord |-> <<chord_names[root + 1], "m">>, best_score |-> min_score]
        ELSE after_maj

\* best_score / 3.0 with no bound applied
ChordConfidenceUnbounded(best_score, scale) == [num |-> best_score, den |-> 3 * scale]

\* float(min(1.0, best_score / 3.0)) as a fraction, for a best_score counted
\* in units of 1 / scale
ChordConfidence(best_score, scale) ==
    [num |-> Min(best_score, 3 * scale), den |-> 3 * scale]

\* (best_chord, best_score) after the turns for roots 0..root
RECURSIVE ScanRoots(_, _)
ScanRoots(frame_chroma, root) ==
    IF root < 0 THEN NoChord
    ELSE CHOOSE after \in {RootTurn(frame_chroma, root, kept) :
                             kept \in {ScanRoots(frame_chroma, root - 1)}} : TRUE

\* The segment appended for frame i (from 0); times[i] is i * hop_length / sr
\* and is kept in samples, the confidence min(1.0, best_score / 3.0) as a
\* fraction.
Segment(i, frame_chroma) ==
    LET best == ScanRoots(frame_chroma, 11)
    IN  [time |-> i * hop_length,
         chord |-> best.best_chord,
         confidence |-> ChordConfidence(best.best_score, ChromaScale)]

Segments(chroma) == [i \in 1..Len(chroma) |-> Segment(i - 1, chroma[i])]

\* The merge loop keeping the last segment of each run instead of the first.
RECURSIVE MergeKeepLast(_, _)
MergeKeepLast(segments, n) ==
    IF n = 0 THEN <<>>
    ELSE CHOOSE after \in {IF merged # <<>> /\ merged[Len(merged)].chord = segments[n].chord
                           THEN [merged EXCEPT ![Len(merged)] = segments[n]]
                           ELSE Append(merged, segments[n]) :
                             merged \in {MergeKeepLast(segments, n - 1)}} : TRUE

\* The merge loop left out: every segment is kept.
MergeNothing(segments, n) == SubSeq(segments, 1, n)

\* `merged` after the first n segments: a segment whose chord equals that of
\* the last one kept is skipped.
RECURSIVE Merge(_, _)
Merge(segments, n) ==
    IF n = 0 THEN <<>>
    ELSE CHOOSE after \in {IF merged # <<>> /\ merged[Len(merged)].chord = segments[n].chord
                           THEN merged
                           ELSE Append(merged, segments[n]) :
                             merged \in {Merge(segments, n - 1)}} : TRUE

\* chroma_cqt yields one more (silent) frame.
ChromaFrame ==
    /\ ch.pc = "chroma"
    /\ Len(ch.chroma) < MaxFrames
    /\ ch' = [ch EXCEPT !.chroma = Append(@, ZeroChroma)]
    /\ UNCHANGED <<cacheVars, calls, fsVars, httpVars, wav, key, moreVars>>

\* chroma_cqt finds one more unit of energy in a pitch class of the last frame.
FrameEnergy ==
    /\ ch.pc = "chroma"
    /\ ch.chroma # <<>>
    /\ ChromaEnergy(ch.chroma) < MaxChordEnergy
    /\ \E p \in 1..12 : ch' = [ch EXCEPT !.chroma[Len(ch.chroma)][p] = @ + 1]
    /\ UNCHANGED <<cacheVars, calls, fsVars, httpVars, wav, key, moreVars>>

\* The frame loop and the merge loop of detect_chords.
DetectChords ==
    /\ ch.pc = "chroma"
    /\ \E segments \in {Segments(ch.chroma)} :
         ch' = [ch EXCEPT !.pc = "done",
                          !.segments = segments,
                          !.merged = Merge(segments, Len(segments))]
    /\ UNCHANGED <<cacheVars, calls, fsVars, httpVars, wav, key, moreVars>>


-----------------------------------------------------------------------------
\* The confidences of _estimate_key and of detect_chords' frame loop, for one
\* chroma frame handed to both, its values counted in units of 1.0.

MaxConfEnergy == 4

NoConfidence == [key_confidence |-> [clamp |-> ""], chord_confidence |-> [num |-> 0, den |-> 1]]

\* The frame holds one more unit of energy in a pitch class.
ConfChromaEnergy ==
    /\ cn.pc = "chroma"
    /\ Energy(cn.chroma) < MaxConfEnergy
    /\ \E p \in 1..12 : cn' = [cn EXCEPT !.chroma[p] = @ + 1]
    /\ UNCHANGED <<cacheVars, calls, fsVars, httpVars, wav, key, ch, rq, ld>>

\* "key_confidence" of _estimate_key and "confidence" of the frame's segment
Confide ==
    /\ cn.pc = "chroma"
    /\ cn' = [cn EXCEPT
                !.pc = "done",
                !.best_score = ScanRoots(cn.chroma, 11).best_score,
                !.result = [key_confidence |-> _estimate_key(cn.chroma).confidence,
                            chord_confidence |->
                                ChordConfidence(ScanRoots(cn.chroma, 11).best_score, 1)]]
    /\ UNCHANGED <<cacheVars, calls, fsVars, httpVars, wav, key, ch, rq, ld>>

vars == <<cache, instDevice, nextInst, loadCalls, loadFails, calls, dirs, files,
          an, up, nextSession, wav, key, ch, cn, rq, ld>>

Init ==
    /\ cache = [m \in ModelNames |-> 0]
    /\ instDevice = [n \in 1..(NumRequests + 1) |-> "unbound"]
    /\ nextInst = 1
    /\ loadCalls = [m \in ModelNames |-> 0]
    /\ loadFails = [m \in ModelNames |-> 0]
    /\ calls = [c \in Callers |-> IdleCall]
    /\ dirs = {InDir}
    /\ files = [p \in {MixPath} |-> "audio"]
    /\ an = IdleAnalysis
    /\ up = IdleUpload
    /\ nextSession = 1
    /\ wav = [pc |-> "decode", audio |-> << <<>> >>, max_points |-> 0, result |-> NoPreview]
    /\ key = [pc |-> "chroma", chroma |-> ZeroChroma, result |-> NoKey]
    /\ ch = [pc |-> "chroma", chroma |-> <<>>, segments |-> <<>>, merged |-> <<>>]
    /\ cn = [pc |-> "chroma", chroma |-> ZeroChroma, best_score |-> 0, result |-> NoConfidence]
    /\ rq = NoRequest
    /\ ld = IdleLoad

\* Direct callers, freely interleaved.
NextCache ==
    \/ \E c \in DirectCallers : DirectCall(c)
    \/ \E c \in DirectCallers : SeparateStep(c)

SpecCache == Init /\ [][NextCache]_vars

\* Direct callers, one call at a time.
NextSeq ==
    \/ \E c \in DirectCallers : SequentialCall(c)
    \/ \E c \in DirectCallers : SeparateStep(c)

SpecSeq == Init /\ [][NextSeq]_vars

\* The HTTP pipeline: one upload request at a time.
NextUpload ==
    \/ Upload
    \/ ReadChunk
    \/ ProcessAudioFile
    \/ DurationStage
    \/ WaveformStage
    \/ KeyTempoStage
    \/ ChordStage
    \/ StemStage
    \/ SeparateStep(HttpCaller)
    \/ AnalyzeReturn
    \/ AnalyzeRaise
    \/ ProcessReturn
    \/ ProcessRaise
    \/ HandleException

SpecUpload == Init /\ [][NextUpload]_vars

\* generate_waveform_preview on decoded buffers.
NextWave ==
    \/ DecodeSample
    \/ GeneratePreview

SpecWave == Init /\ [][NextWave]_vars

\* _estimate_key on chroma vectors.
NextKey ==
    \/ KeyChromaEnergy
    \/ EstimateKey

SpecKey == Init /\ [][NextKey]_vars

\* Chord detection over every chroma matrix within the bounds.
NextChords ==
    \/ ChromaFrame
    \/ FrameEnergy
    \/ DetectChords

SpecChords == Init /\ [][NextChords]_vars

\* Uploads, stem requests and session deletions, one request at a time.
NextSession ==
    \/ NextUpload
    \/ DeleteSession
    \/ GetStem

SpecSession == Init /\ [][NextSession]_vars

\* One call of load_audio.
NextLoad ==
    \/ LoadCall
    \/ PrimaryDecode
    \/ SecondaryDecode
    \/ MonoMix
    \/ ResampleReturn

SpecLoad == Init /\ [][NextLoad]_vars

\* Both confidences over every chroma frame within the bound.
NextConf ==
    \/ ConfChromaEnergy
    \/ Confide

SpecConf == Init /\ [][NextConf]_vars

\* ------------------------------------------------------------------ claims

\* Two direct callers that asked for the same model on the same device.
SameKey(c, d) ==
    /\ c # d
    /\ calls[c].pc # "idle" /\ calls[d].pc # "idle"
    /\ calls[c].model_name = calls[d].model_name
    /\ calls[c].device = calls[d].device

\* C1: under any interleaving of separate_stems calls with the same cache key,
\* get_model succeeds at most once for that key and all of those calls get
\* the same model instance.
C1_SingleLoadPerKey ==
    /\ \A m \in ModelNames : loadCalls[m] - loadFails[m] <= 1
    /\ \A c, d \in DirectCallers :
         (SameKey(c, d) /\ calls[c].model # 0 /\ calls[d].model # 0)
            => calls[c].model = calls[d].model

\* C2: calls that name the same model but different devices never hold the
\* same model instance, and the instance a call is working with (from its
\* model.to to its return) stays on that call's device.
C2_InstanceBoundToOneDevice ==
    /\ \A c, d \in DirectCallers :
         (calls[c].model # 0 /\ calls[c].model = calls[d].model)
            => calls[c].device = calls[d].device
    /\ \A c \in DirectCallers :
         calls[c].pc \in {"audio", "apply", "write"}
            => instDevice[calls[c].model] = calls[c].device

\* C3: when the calls do not overlap, get_model succeeds at most once per
\* model name (so with no failed load its call count stays 1) and every call
\* for that name gets the instance the first one cached.
C3_SequentialCacheHit ==
    /\ \A m \in ModelNames :
         /\ loadCalls[m] - loadFails[m] <= 1
         /\ loadFails[m] = 0 => loadCalls[m] <= 1
    /\ \A c, d \in DirectCallers :
         (calls[c].model # 0 /\ calls[d].model # 0
            /\ calls[c].model_name = calls[d].model_name)
            => calls[c].model = calls[d].model

\* Two successful calls for one model name, one load.
C3_Witness ==
    \E c, d \in DirectCallers :
        /\ c # d
        /\ calls[c].result = "ok" /\ calls[d].result = "ok"
        /\ calls[c].model_name = calls[d].model_name
        /\ loadCalls[calls[c].model_name] = 1
        /\ calls[c].model = calls[d].model

\* C4: a preview that was produced has points <= max_points.
C4_PointsAtMostMax ==
    (wav.pc = "done" /\ wav.result.error = "none")
        => wav.result.points <= wav.max_points

\* C5: when analyze_audio has returned or raised, the input file is still at
\* its path with the content that was supplied.
C5_InputKept ==
    an.pc \in {"returned", "raised"} => Content(an.audio_path) = "upload"

\* C6: an upload whose streamed size exceeded the limit is answered 413,
\* 'File exceeds 100MB limit'.
C6_SizeLimitAnswered413 ==
    (up.pc = "idle" /\ up.total > SizeLimit)
        => (up.status = 413 /\ up.detail = "File exceeds 100MB limit")

\* C7: the stages start in the fixed order, each at most once; a stage that
\* raises ends analyze_audio at once with that exception and no result; the
\* caller receives the exception; and when one of the first four stages
\* raised, separate_stems was never entered and no stem file was written.
C7_FailFast ==
    LET n == Len(an.started) IN
    /\ n <= Len(Stages)
    /\ \A k \in 1..n : an.started[k] = Stages[k]
    /\ an.pc \in {Stages[k] : k \in 1..Len(Stages)} => an.pc = Stages[n + 1]
    /\ an.error # "none" => an.pc = "raised"
    /\ an.pc = "raised" => (an.error # "none" /\ an.result = "none")
    /\ an.result # "none" => (an.pc = "returned" /\ n = Len(Stages))
    /\ (an.pc = "raised" /\ up.pc = "except") => up.exc = an.error
    /\ (an.pc = "raised" /\ n < Len(Stages)) =>
          /\ calls[HttpCaller].pc = "idle"
          /\ \A k \in 1..Len(StemNames) :
               Content(OutPath(an.output_dir, StemNames[k])) \notin {"stem", "partial"}

\* The key/tempo stage raised after two stages had succeeded.
C7_Witness ==
    /\ an.pc = "raised"
    /\ an.started = <<"duration", "waveform", "key_tempo">>
    /\ up.pc = "except"

\* Candidate k of the canonical order (tonic ascending, major before minor)
\* has a maximal score and every candidate before it a smaller one.
FirstMaximal(scores, k) ==
    /\ \A j \in 1..24 : ~ScoreGreater(scores[j], scores[k])
    /\ \A j \in 1..(k - 1) : ScoreGreater(scores[k], scores[j])

\* C8: the key returned is that of the first candidate, in canonical order,
\* among those with the maximal score; with all 24 scores equal it is C major.
C8_FirstMaximalKey ==
    key.pc = "done" =>
        LET scores == KeyScores(key.chroma) IN
        /\ \E k \in 1..24 :
             /\ key.result.key = KeyName((k - 1) \div 2,
                                         IF k % 2 = 1 THEN "major" ELSE "minor")
             /\ FirstMaximal(scores, k)
        /\ (\A j, k \in 1..24 : ~ScoreGreater(scores[j], scores[k]))
              => key.result.key = <<"C", "major">>

\* A non-silent chroma whose maximal score is shared by two candidates.
C8_Witness ==
    /\ key.pc = "done"
    /\ key.chroma # ZeroChroma
    /\ \E j, k \in 1..24 :
         /\ j < k
         /\ FirstMaximal(KeyScores(key.chroma), j)
         /\ ~ScoreGreater(KeyScores(key.chroma)[j], KeyScores(key.chroma)[k])

\* Candidate k of detect_chords' scan order: roots 0..11, major before minor.
CandidateLabel(k) == <<chord_names[((k - 1) \div 2) + 1], IF k % 2 = 1 THEN "" ELSE "m">>

CandidateScore(frame_chroma, k) ==
    Dot(frame_chroma,
        Roll(IF k % 2 = 1 THEN major_template ELSE minor_template, (k - 1) \div 2))

\* The scores of the 24 candidates for a frame, in scan order.
CandidateScores(frame_chroma) == [k \in 1..24 |-> CandidateScore(frame_chroma, k)]

\* Candidate k scores the maximum of `scores` and no earlier one does.
FirstBest(scores, k) ==
    /\ \A j \in 1..24 : scores[j] <= scores[k]
    /\ \A j \in 1..(k - 1) : scores[j] < scores[k]

\* C9: every frame is labelled "N" exactly when no candidate scores above 0,
\* and otherwise with the first candidate, in scan order, of maximal score; a
\* minor candidate's label is its root name followed by "m".
C9_FrameLabel ==
    ch.pc = "done" =>
        \A i \in 1..Len(ch.chroma) :
            \A scores \in {CandidateScores(ch.chroma[i])} :
                LET chord == ch.segments[i].chord
                IN  /\ chord = <<"N", "">> <=> \A k \in 1..24 : scores[k] <= 0
                    /\ chord # <<"N", "">>
                         => \E k \in 1..24 : /\ chord = CandidateLabel(k)
                                             /\ FirstBest(scores, k)

\* A silent frame labelled "N" next to a frame labelled with a minor chord
\* whose score a later candidate equals.
C9_Witness ==
    /\ ch.pc = "done"
    /\ \E i \in 1..Len(ch.chroma) : ch.segments[i].chord = <<"N", "">>
    /\ \E i \in 1..Len(ch.chroma) : \E j, k \in 1..24 :
         /\ j < k
         /\ ch.segments[i].chord = CandidateLabel(j)
         /\ ch.segments[i].chord[2] = "m"
         /\ CandidateScore(ch.chroma[i], j) > 0
         /\ CandidateScore(ch.chroma[i], k) = CandidateScore(ch.chroma[i], j)

\* C10: the chord sequence returned has non-negative, non-decreasing times
\* and no two adjacent segments with the same chord label.
C10_MergedSorted ==
    ch.pc = "done" =>
        /\ \A i \in 1..Len(ch.merged) : ch.merged[i].time >= 0
        /\ \A i \in 1..(Len(ch.merged) - 1) :
             /\ ch.merged[i].time <= ch.merged[i + 1].time
             /\ ch.merged[i].chord # ch.merged[i + 1].chord

\* Some segment was skipped by the merge and at least two were kept.
C10_Witness ==
    /\ ch.pc = "done"
    /\ Len(ch.merged) >= 2
    /\ Len(ch.merged) < Len(ch.segments)

\* C11: the key confidence and the chord confidence lie in [0, 1]: the key
\* confidence is 1 or 0 where (best + 1) / 2 is beyond them and (best + 1) / 2
\* with -1 <= best <= 1 otherwise; the chord confidence is best_score / 3
\* and 1 where that is above 1.
C11_ConfidenceInUnitInterval ==
    cn.pc = "done" =>
        LET k == cn.result.key_confidence
            c == cn.result.chord_confidence
        IN  /\ \/ k.clamp \in {"one", "zero"}
               \/ /\ k.clamp = "none"
                  /\ k.dot * k.dot <= k.normsq * k.normsq_chroma
            /\ 0 <= c.num /\ c.num <= c.den /\ c.den > 0
            /\ c.num * 3 = c.den * Min(cn.best_score, 3)

\* A frame whose best template score is above 3.
C11_Witness ==
    /\ cn.pc = "done"
    /\ cn.best_score > 3
    /\ cn.result.key_confidence.clamp = "none"

\* The greatest absolute sample value of the decoded buffer, or 1 if it is 0.
GlobalPeak ==
    LET peaks == {Abs(wav.audio[c][i]) :
                    c \in 1..NumChannels(wav.audio), i \in 1..NumSamples(wav.audio)}
        top == CHOOSE m \in peaks : \A n \in peaks : n <= m
    IN  IF top = 0 THEN 1 ELSE top

\* C12: for a non-empty buffer the preview is produced without error, every
\* value is within [-1, 1], a preview that is not chunked holds each sample
\* divided by the global peak (by 1 for a silent buffer), a chunked one the
\* mean of its chunk, and a silent buffer gives an all-zero preview.
C12_PreviewInRange ==
    (wav.pc = "done" /\ NumSamples(wav.audio) > 0) =>
        LET w == wav.result.waveform
            chunk == NumSamples(wav.audio) \div wav.max_points
        IN  /\ wav.result.error = "none"
            /\ \A c \in 1..Len(w) : \A j \in 1..Len(w[c]) :
                 /\ w[c][j].den > 0
                 /\ 0 - w[c][j].den <= w[c][j].num
                 /\ w[c][j].num <= w[c][j].den
                 /\ GlobalPeak = 1 /\ MaxAbs(wav.audio) = 0 => w[c][j].num = 0
                 /\ w[c][j].den = GlobalPeak *
                        (IF NumSamples(wav.audio) <= wav.max_points THEN 1 ELSE chunk)
                 /\ NumSamples(wav.audio) <= wav.max_points
                      => w[c][j].num = wav.audio[c][j]
                 /\ NumSamples(wav.audio) > wav.max_points
                      => w[c][j].num =
                           SumSeq([k \in 1..chunk |-> wav.audio[c][(j - 1) * chunk + k]])

\* A stereo buffer whose peak, 2, is in the second channel only, reduced by
\* chunks of two samples.
C12_Witness ==
    /\ wav.pc = "done"
    /\ wav.result.error = "none"
    /\ NumChannels(wav.audio) = 2
    /\ GlobalPeak = 2
    /\ \A i \in 1..NumSamples(wav.audio) : Abs(wav.audio[1][i]) < 2
    /\ NumSamples(wav.audio) = 2 * wav.result.points

\* The suffixes in use that are .mp3, .wav or .m4a in some letter case.
SupportedSuffixes == {".mp3", ".wav", ".m4a", ".MP3", ".WAV", ".M4A"}

\* C13: an upload is answered 400 "Unsupported file format" exactly when its
\* extension is not .mp3, .wav or .m4a in any letter case, and then no
\* session id is taken, no directory or file is made and no processing starts.
C13_BadExtensionRejected ==
    [][(up.pc = "idle" /\ up' # up) =>
         /\ up'.status = 400 <=> Suffix(up'.filename) \notin SupportedSuffixes
         /\ up'.status = 400 =>
              /\ up'.detail = "Unsupported file format"
              /\ up'.pc = "idle" /\ up'.sid = 0
              /\ nextSession' = nextSession
              /\ dirs' = dirs /\ files' = files
              /\ an' = an /\ calls' = calls]_vars

\* An upload of notes.txt was answered 400 after an earlier upload had its
\* session created.
C13_Witness ==
    /\ up.status = 400
    /\ up.filename = <<"notes", ".txt">>
    /\ nextSession > 1
    /\ \E sid \in SessionIds : SessionDir(sid) \in dirs

\* C14: when a request whose session was created has been answered, an error
\* answer finds the session directory and every file under it gone, and the
\* answer 200 finds the directory kept with the upload in it.
C14_FailedSessionCleaned ==
    (up.pc = "idle" /\ up.sid # 0) =>
        /\ up.status \in {200, 404, 500}
        /\ up.status = 200 <=> up.exc = "none"
        /\ up.status = 200 => SessionDir(up.sid) \in dirs
        /\ up.status # 200 =>
             /\ SessionDir(up.sid) \notin dirs
             /\ \A p \in DOMAIN files : p[1] # SessionDir(up.sid)

\* A request was answered with an error after separate_stems had failed
\* writing a stem, or after the size limit was exceeded.
C14_Witness ==
    /\ up.pc = "idle"
    /\ up.sid # 0
    /\ up.status = 500
    /\ up.exc \in {"IOError", "HTTPException413"}

\* A step that serves a session request with a new answer or a change of
\* the file system.
SessionRequestServed ==
    /\ up.pc = "idle" /\ up' = up
    /\ rq' # rq \/ dirs' # dirs \/ files' # files

\* C15: every deletion is answered ok and leaves the session directory and
\* the files under it absent; for a session with no directory it changes
\* nothing in the file system.
C15_CleanupIdempotent ==
    [][(SessionRequestServed /\ rq'.op = "delete") =>
         /\ rq'.status = 200
         /\ SessionDir(rq'.sid) \notin dirs'
         /\ \A p \in DOMAIN files' : p[1] # SessionDir(rq'.sid)
         /\ SessionDir(rq'.sid) \notin dirs => (dirs' = dirs /\ files' = files)]_vars

\* The deletion of "fake-session-id" was answered ok while a session exists.
C15_Witness ==
    /\ rq.op = "delete"
    /\ rq.sid = FakeSession
    /\ rq.status = 200
    /\ \E sid \in SessionIds : SessionDir(sid) \in dirs

\* C18: a request for a stem of a session that has no directory is
\* answered 404 and changes nothing in the file system.
C18_StemRequestReadOnly ==
    [][(/\ SessionRequestServed
        /\ rq'.op = "stem"
        /\ rq'.stem_name \in valid_stems
        /\ SessionDir(rq'.sid) \notin dirs) =>
         /\ rq'.status = 404
         /\ dirs' = dirs
         /\ files' = files]_vars

\* The frames that begin a maximal run of equal chord labels.
RunStarts ==
    {i \in 1..Len(ch.segments) :
        i = 1 \/ ch.segments[i].chord # ch.segments[i - 1].chord}

\* The k-th run start in frame order.
RunStart(k) == CHOOSE i \in RunStarts : Cardinality({j \in RunStarts : j <= i}) = k

\* C16: the merged sequence holds one segment per maximal run of equal
\* labels, in order, and it is the segment of the run's first frame, with
\* that frame's time and confidence.
C16_OneSegmentPerRun ==
    ch.pc = "done" =>
        /\ Len(ch.merged) = Cardinality(RunStarts)
        /\ \A k \in 1..Len(ch.merged) : \E i \in {RunStart(k)} :
             /\ ch.merged[k].chord = ch.segments[i].chord
             /\ ch.merged[k].time = (i - 1) * hop_length
             /\ ch.merged[k].confidence = ch.segments[i].confidence

\* A run of two frames that follows a run of one frame.
C16_Witness ==
    /\ ch.pc = "done"
    /\ Len(ch.segments) = 3
    /\ RunStarts = {1, 2}
    /\ ch.segments[2].chord # <<"N", "">>

\* The order of the decode attempts, and the returned buffer: sf.read is the
\* first attempt, librosa.load is attempted only after sf.read failed, a
\* return follows a successful decode and carries target_sr and one channel
\* if mono was requested, the decoded channels otherwise; two failed decodes
\* end in the decode error.
LoadOrderAndResult ==
    /\ ld.pc \notin {"idle", "primary"} => ld.primary # "untried"
    /\ ld.secondary # "untried" => ld.primary = "failed"
    /\ ld.pc = "returned" =>
         /\ ld.primary = "ok" \/ ld.secondary = "ok"
         /\ ld.sr = ld.target_sr
         /\ ld.channels = IF ld.mono THEN 1 ELSE ld.decoded_channels
    /\ (ld.primary = "failed" /\ ld.secondary = "failed") =>
         (ld.pc = "raised" /\ ld.error = "DecodeError")

\* C17 as stated: the above, and load_audio raises only when both decode
\* attempts failed.
C17_LoadFailsOnlyIfBothDecodesFail ==
    /\ LoadOrderAndResult
    /\ ld.pc = "raised" => (ld.primary = "failed" /\ ld.secondary = "failed")

\* C17 amended: the above, and load_audio raises only when both decode
\* attempts failed or when, after a successful decode at a rate other than
\* target_sr, the resampling raised.
C17_LoadFailsOnlyIfDecodesOrResampleFail ==
    /\ LoadOrderAndResult
    /\ ld.pc = "raised" =>
         \/ ld.primary = "failed" /\ ld.secondary = "failed" /\ ld.error = "DecodeError"
         \/ /\ ld.primary = "ok" \/ ld.secondary = "ok"
            /\ ld.decoded_sr # ld.target_sr
            /\ ld.error = "ResampleError"

\* A stereo file that only librosa.load could decode, at a rate other than
\* target_sr, was returned mixed to mono.
C17_Witness ==
    /\ ld.pc = "returned"
    /\ ld.primary = "failed" /\ ld.secondary = "ok"
    /\ ld.mono /\ ld.decoded_channels = 2
    /\ ld.decoded_sr # ld.target_sr

====
